---------------------------- MODULE Spec2Model ----------------------------
(***************************************************************************)
(* Model of the two Automator workflow scripts of macos-extensions:        *)
(*   - copy_to_server.py : ServerCopyDialog, its remote-path autocomplete  *)
(*     (background listing threads, the home-directory cache, the Tk       *)
(*     after() queue of the interactive thread);                           *)
(*   - add_to_music.py   : process_audio_file and the functions it calls.  *)
(* Strings are sequences of one-character strings, so that strip, rstrip,  *)
(* split, startswith and slicing are computed as Python computes them.     *)
(***************************************************************************)
EXTENDS Naturals, Sequences, FiniteSets

(***************************************************************************)
(* Bounds of the model.                                                    *)
(***************************************************************************)
\* threads one dialog session may start (home-resolution and listing threads)
MaxThreads == 4
\* listing threads that may be running at the same time
MaxInFlight == 2
\* lines one remote listing may print
MaxLines == 2

(***************************************************************************)
(* Python string operations.                                               *)
(***************************************************************************)
\* str.startswith(pre)
StartsWith(s, pre) == Len(pre) <= Len(s) /\ SubSeq(s, 1, Len(pre)) = pre

\* s[n:]
SliceFrom(s, n) == IF n >= Len(s) THEN << >> ELSE SubSeq(s, n + 1, Len(s))

\* s.endswith('/')
EndsWithSlash(s) == Len(s) > 0 /\ s[Len(s)] = "/"

\* characters str.strip() removes
IsSpace(c) == c \in {" ", "\n", "\t"}

RECURSIVE LStripSpace(_)
LStripSpace(s) ==
    IF s # << >> /\ IsSpace(Head(s)) THEN LStripSpace(Tail(s)) ELSE s

RECURSIVE RStripSpace(_)
RStripSpace(s) ==
    IF s # << >> /\ IsSpace(s[Len(s)])
    THEN RStripSpace(SubSeq(s, 1, Len(s) - 1))
    ELSE s

\* str.strip()
Strip(s) == RStripSpace(LStripSpace(s))

\* str.rstrip('/')
RECURSIVE RStripSlash(_)
RStripSlash(s) ==
    IF s # << >> /\ s[Len(s)] = "/"
    THEN RStripSlash(SubSeq(s, 1, Len(s) - 1))
    ELSE s

\* str.split('\n'): the pieces between newlines (one piece when there is none)
RECURSIVE SplitNL(_, _)
SplitNL(s, cur) ==
    IF s = << >> THEN << cur >>
    ELSE IF Head(s) = "\n" THEN << cur >> \o SplitNL(Tail(s), << >>)
    ELSE SplitNL(Tail(s), Append(cur, Head(s)))

\* result.stdout.strip().split('\n')
StdoutLines(stdout) == SplitNL(Strip(stdout), << >>)

\* the text a remote command prints: each line followed by a newline
RECURSIVE JoinLines(_)
JoinLines(ls) ==
    IF ls = << >> THEN << >> ELSE Head(ls) \o << "\n" >> \o JoinLines(Tail(ls))

(***************************************************************************)
(* The environment of a dialog session: the hosts of ~/.ssh/config and     *)
(* what the remote side can answer.                                        *)
(***************************************************************************)
None == "None"

\* self.remote_home = None; fetch_remote_home never returns an empty string,
\* so the empty sequence stands for None
NoHome == << >>

TILDE == << "~" >>
TILDE_SLASH == <<"~", "/">>

\* names of the hosts SSHConfigParser.parse returned, in file order
Hosts == {"A", "B"}
FirstHost == "A"

\* whether host['identity_file'] is set and exists on disk
HasIdentityFile(h) == h = "A"

\* what `echo $HOME` prints on each host
RemoteHomeOf(h) == IF h = "A" THEN <<"/", "h", "o", "m", "e", "/", "a", "l", "i", "c", "e">> ELSE <<"/", "t", "m", "p">>

\* directories of the remote file systems, in the order and the form
\* `ls -1d <pattern>*/` and `ls -1dp <pattern>*/` print them (the glob's
\* trailing '/', and the one -p adds)
RemoteDirLines ==
    << <<"/", "h", "o", "m", "e", "/", "a", "l", "i", "c", "e", "/", "d", "o", "c", "s", "/">>,
       <<"/", "h", "o", "m", "e", "/", "a", "l", "i", "c", "e", "/", "p", "i", "c", "s", "/">>,
       <<"/", "t", "m", "p", "/", "x", "/", "/">> >>

\* texts the user leaves in the destination field after a key release
TypedTexts ==
    { <<"~", "/", "d">>,
      <<"/", "h", "o", "m", "e", "/", "a", "l", "i", "c", "e", "/">> }

\* the shell expands a leading ~ of the pattern to the remote home directory
ExpandTilde(h, pattern) ==
    IF StartsWith(pattern, TILDE)
    THEN RemoteHomeOf(h) \o SliceFrom(pattern, 1)
    ELSE pattern

\* s[:n]
Take(s, n) == IF n >= Len(s) THEN s ELSE SubSeq(s, 1, n)

\* the lines a listing of `pattern` on host h prints (cut by `| head`)
ListingLines(h, pattern) ==
    LET Matches(l) == StartsWith(l, ExpandTilde(h, pattern))
    IN Take(SelectSeq(RemoteDirLines, Matches), MaxLines)

\* outcomes of subprocess.run(ssh_cmd, capture_output=True, text=True, timeout=10):
\* exc is the exception it raises ("none": it returns), rc and stdout what it returns
RunResult(exc, rc, stdout) == [exc |-> exc, rc |-> rc, stdout |-> stdout]

NoResult == RunResult("none", 0, << >>)

FailureResults ==
    { RunResult("TimeoutExpired", 0, << >>),   \* the 10 s timeout expired
      RunResult("none", 255, << >>),           \* ssh could not connect
      RunResult("none", 1, << >>),             \* the remote command failed
      RunResult("none", 0, << >>) }            \* nothing printed

ListingResults(h, pattern) ==
    { RunResult("none", 0, JoinLines(ListingLines(h, pattern))) }

RunResults(h, pattern) == FailureResults \cup ListingResults(h, pattern)

(***************************************************************************)
(* add_to_music.py: process_audio_file(file_path) for one file.            *)
(* Python values are written as strings ("True", "False", "None",          *)
(* "import", ...), so that == between a bool and a str is false as in      *)
(* Python.  A name in the import directory is a number: 0 is the file's    *)
(* own name, k >= 1 is base_k.ext.                                         *)
(***************************************************************************)
\* names base_1.ext .. base_MaxTaken.ext the import directory may already hold
MaxTaken == 2

\* max_retries in get_metadata_from_musicbrainz
max_retries == 5

VARIABLES
    pc,                 \* position in process_audio_file
    file_exists,        \* os.path.isfile(file_path)
    file_ext,           \* os.path.splitext(file_path)[1].lower()
    existing,           \* the names that exist in MUSIC_IMPORT_DIR
    acoustid_results,   \* what get_acoustid_fingerprint gave: "None", "low", "high"
    attempt,            \* get_metadata_from_musicbrainz: the loop variable
    retry_delay,        \* get_metadata_from_musicbrainz: the next delay
    sleeps,             \* the arguments of time.sleep so far
    lookups,            \* what each get_recording_by_id call so far gave
    mb_return,          \* what get_metadata_from_musicbrainz returned
    initial_metadata,   \* "None", "found" or "unknown"
    dialog_action,      \* MetadataDialog.action, or what was typed in the fallback
    user_confirmed,     \* first value show_confirmation_dialog returned
    confirmed_metadata, \* second value show_confirmation_dialog returned
    destination,        \* the name the file is moved to
    counter,            \* the counter of the duplicate-name loop
    move_raises,        \* environment: shutil.move would raise for this file
    moved,              \* shutil.move moved the file
    returned            \* the return value of process_audio_file

music_vars ==
    << pc, file_exists, file_ext, existing, acoustid_results, attempt, retry_delay,
       sleeps, lookups, mb_return, initial_metadata, dialog_action, user_confirmed, confirmed_metadata,
       destination, counter, move_raises, moved, returned >>

(***************************************************************************)
(* copy_to_server.py: main(), from dialog.show() to the return of          *)
(* copy_files_to_server.                                                   *)
(***************************************************************************)
VARIABLES
    password_var,       \* self.password_var: the text of the password field
    create_dest_var,    \* self.create_dest_var: the "create destination" checkbox
    result,             \* self.result
    root_alive,         \* the Tk root exists and its mainloop runs
    main_pc,            \* position of main(): "show", "mkdir", "scp", "run", "done"
    config,             \* what dialog.show() returned to main()
    warned,             \* copy_files_to_server printed the mkdir warning
    scp_out,            \* what running scp gave (ScpNotRun when it was not run)
    ret,                \* what copy_files_to_server returned
    raised              \* an exception left copy_files_to_server

main_vars ==
    << password_var, create_dest_var, result, root_alive, main_pc, config, warned,
       scp_out, ret, raised >>

\* None where a dict or a tuple is expected: self.result and the values returned
\* are sequences, empty for None and of one dict, or of the parts of the tuple
NoDict == << >>

\* scp was not executed
ScpNotRun == [ran |-> FALSE, exc |-> "none", rc |-> 0]

\* the dialog just constructed, main() inside dialog.show()
MainIdle ==
    /\ password_var = ""
    /\ create_dest_var = TRUE
    /\ result = NoDict
    /\ root_alive = TRUE
    /\ main_pc = "show"
    /\ config = NoDict
    /\ warned = FALSE
    /\ scp_out = ScpNotRun
    /\ ret = NoDict
    /\ raised = FALSE


(***************************************************************************)
(* State of a ServerCopyDialog session.                                    *)
(***************************************************************************)
VARIABLES
    server_var,         \* self.server_var: the name shown in the server combobox
    selected_host,      \* self.selected_host (None or a host)
    password_visible,   \* self.password_visible
    dest_var,           \* self.dest_var: the text of the destination field
    destination_paths,  \* self.destination_paths: the candidate list
    combo_values,       \* self.dest_combo['values']
    remote_home,        \* self.remote_home: the home-directory cache
    threads,            \* the threading.Thread objects started so far, in start order
    after_queue,        \* callbacks scheduled with self.root.after(0, ...), in order
    dropdown_posted,    \* whether the list of self.dest_combo is open
    dp_src,             \* history: the query the candidate list came from
    last_arrival,       \* history: the latest non-empty listing result delivered
    max_arrived         \* history: the non-empty result delivered of the newest query

dialog_vars ==
    << server_var, selected_host, password_visible, dest_var, destination_paths,
       combo_values, remote_home, threads, after_queue, dropdown_posted, dp_src,
       last_arrival, max_arrived >>

(***************************************************************************)
(* Threads.  A thread is a record: kind is its target ("home":             *)
(* fetch_and_store_home, "paths": fetch_remote_paths, "filter":            *)
(* fetch_and_filter_paths), pc its position, the rest its arguments and    *)
(* locals.  prov is history: for each candidate appended to paths, the     *)
(* normalized line c it came from and the values of self.remote_home the   *)
(* thread read for it: h1 in `and self.remote_home`, h2 in                 *)
(* p.startswith(self.remote_home), h3 in p[len(self.remote_home):]         *)
(* (NoHome where the read was not reached), and by whom it was rewritten   *)
(* ("none", "thread", or "apply": apply_home_replacement_to_paths).        *)
(***************************************************************************)
\* a thread whose remote command was already run, and timed out, by its creator
ThreadCalledInline(kind, at, pattern, qtext) ==
    [ kind |-> kind, pc |-> IF at = "start" /\ kind # "home" THEN "ret" ELSE at,
      host |-> None, pattern |-> pattern, qtext |-> qtext, using_tilde |-> FALSE,
      out |-> IF at = "start" THEN RunResult("TimeoutExpired", 0, << >>) ELSE NoResult,
      home |-> NoHome,
      lines |-> << >>, i |-> 0, p |-> << >>, h1 |-> NoHome, h2 |-> NoHome,
      paths |-> << >>, prov |-> << >>, escaped |-> FALSE ]

Thread(kind, at, pattern, qtext) ==
    [ kind |-> kind, pc |-> at, host |-> None,
      pattern |-> pattern,        \* remote_path, or dir_path + prefix
      qtext |-> qtext,            \* the text of the field the query was made from
      using_tilde |-> FALSE,
      out |-> NoResult,           \* what subprocess.run gives
      home |-> NoHome,            \* fetch_remote_home's return value
      lines |-> << >>, i |-> 0, p |-> << >>, h1 |-> NoHome, h2 |-> NoHome,
      paths |-> << >>, prov |-> << >>,
      escaped |-> FALSE ]         \* an exception left the thread's target

\* a guard that never finds the host missing
NoHostSelectedNever(host) == FALSE

\* `if not self.selected_host:`
NoHostSelected(host) == host = None

\* a thread whose target has returned
Finished(t) == Thread(t.kind, "done", << >>, << >>)

\* a thread whose target was left by an exception nothing caught
Crashed(t) == [ Finished(t) EXCEPT !.escaped = TRUE ]

Running(n) == threads[n].pc # "done"

\* listing threads whose target has not returned
InFlight == { n \in 1..Len(threads) : threads[n].kind # "home" /\ Running(n) }

CanStart(k) == Len(threads) + k <= MaxThreads /\ Cardinality(InFlight) < MaxInFlight

\* the newest listing thread started
LastIssued ==
    LET L == { n \in 1..Len(threads) : threads[n].kind # "home" }
    IN IF L = {} THEN 0 ELSE CHOOSE n \in L : \A m \in L : m <= n

\* a callback scheduled with root.after(0, fn, paths) by thread n
Callback(fn, n) ==
    [ fn |-> fn, paths |-> threads[n].paths, tid |-> n, host |-> threads[n].host,
      kind |-> threads[n].kind,
      qtilde |-> StartsWith(threads[n].qtext, TILDE_SLASH),
      using_tilde |-> threads[n].using_tilde, prov |-> threads[n].prov ]

\* the placeholder list load_destination_suggestions installs
Placeholder == << TILDE_SLASH >>

PlaceholderSrc(h) ==
    [ tid |-> 0, host |-> h, qtilde |-> TRUE, using_tilde |-> TRUE,
      kind |-> "load",
      prov |-> << [c |-> TILDE, h1 |-> NoHome, h2 |-> NoHome, h3 |-> NoHome,
                   by |-> "none"] >> ]

\* the history of the list a delivered callback installs
SrcOf(m) ==
    [ tid |-> m.tid, host |-> m.host, qtilde |-> m.qtilde,
      using_tilde |-> m.using_tilde, kind |-> m.kind, prov |-> m.prov ]

(***************************************************************************)
(* Construction: main() builds the dialog only when hosts is non-empty;    *)
(* __init__ selects the first host and calls on_server_selected(None),     *)
(* which starts the home-resolution thread and, through                    *)
(* load_destination_suggestions, the first listing thread.                 *)
(***************************************************************************)
DialogInit ==
    /\ server_var = FirstHost
    /\ selected_host = FirstHost
    /\ password_visible = ~HasIdentityFile(FirstHost)
    /\ dest_var = TILDE_SLASH
    /\ destination_paths = Placeholder
    /\ combo_values = Placeholder
    /\ remote_home = NoHome
    /\ threads = << Thread("home", "start", << >>, << >>),
                    Thread("paths", "start", TILDE_SLASH, TILDE_SLASH) >>
    /\ after_queue = << >>
    /\ dropdown_posted = FALSE
    /\ dp_src = PlaceholderSrc(FirstHost)
    /\ last_arrival = [tid |-> 0, paths |-> Placeholder]
    /\ max_arrived = [tid |-> 0, paths |-> << >>]

(***************************************************************************)
(* The pieces of fetch_remote_paths and fetch_and_filter_paths that turn   *)
(* the output of the remote listing into candidates.                       *)
(***************************************************************************)
\* NormalizeLine without rstrip('/')
NormalizeLineKeepSlashes(l) == Strip(l)

\* p = p.strip().rstrip('/')
NormalizeLine(l) == RStripSlash(Strip(l))

\* ShouldTestHome without the test of using_tilde
ShouldTestHomeAnyQuery(using_tilde, p, home) == p # << >> /\ home # NoHome

\* `using_tilde and p and self.remote_home`
ShouldTestHome(using_tilde, p, home) == using_tilde /\ p # << >> /\ home # NoHome

\* p.startswith(self.remote_home)
HasHomePrefix(p, h) == StartsWith(p, h)

\* HomeRewrite with the slice one character late
HomeRewriteOffByOne(p, h) == TILDE \o SliceFrom(p, Len(h) + 1)

\* p = '~' + p[len(self.remote_home):]
HomeRewrite(p, h) == TILDE \o SliceFrom(p, Len(h))

\* Candidate without the '/' re-added
CandidateBare(p) == p

\* paths.append(p + '/')
Candidate(p) == p \o << "/" >>

\* fetch_remote_paths: using_tilde = remote_path.startswith('~/')
UsingTildeOfPath(remote_path) == StartsWith(remote_path, TILDE_SLASH)

\* fetch_and_filter_paths: using_tilde = self.dest_var.get().startswith('~/')
UsingTildeOfField(text) == StartsWith(text, TILDE_SLASH)

\* if result.returncode == 0 and result.stdout.strip():
HasListing(out) == out.rc = 0 /\ Strip(out.stdout) # << >>

\* a handler that catches OSError only
CaughtOnlyOSError(exc) == exc = "OSError"

\* `except Exception as e:` around subprocess.run and the processing of its output
CaughtByHandler(exc) == exc \in {"TimeoutExpired", "OSError", "TypeError"}

\* the thread after its try block was left by exception exc
AfterException(th, exc) == IF CaughtByHandler(exc) THEN Finished(th) ELSE Crashed(th)

\* `if p: paths.append(p + '/')`, then the next iteration of the for loop
Advance(th, p, h1, h2, h3) ==
    LET added == p # << >>
        th1 == [ th EXCEPT
                   !.paths = IF added THEN Append(@, Candidate(p)) ELSE @,
                   !.prov = IF added
                            THEN Append(@, [c |-> th.p, h1 |-> h1, h2 |-> h2, h3 |-> h3,
                                            by |-> IF h3 # NoHome THEN "thread"
                                                   ELSE "none"])
                            ELSE @,
                   !.p = << >>, !.h1 = NoHome, !.h2 = NoHome, !.i = @ + 1 ]
    IN [ th1 EXCEPT !.pc = IF th1.i > Len(th.lines) THEN "post" ELSE "item" ]

(***************************************************************************)
(* Steps of a listing thread.                                              *)
(***************************************************************************)
\* the thread starts: `if not self.selected_host: return`, the ssh command is built
\* from self.selected_host; fetch_remote_paths takes using_tilde from its argument
\* and calls subprocess.run
ListingStart(n) ==
    /\ n \in 1..Len(threads)
    /\ threads[n].kind \in {"paths", "filter"}
    /\ threads[n].pc = "start"
    /\ LET th == threads[n] IN
       IF NoHostSelected(selected_host)
       THEN threads' = [threads EXCEPT ![n] = Finished(th)]
       ELSE IF th.kind = "filter"
       THEN threads' = [threads EXCEPT ![n] =
                            [th EXCEPT !.host = selected_host, !.pc = "tilde"]]
       ELSE \E out \in RunResults(selected_host, th.pattern) :
                threads' = [threads EXCEPT ![n] =
                    [th EXCEPT !.host = selected_host,
                               !.using_tilde = UsingTildeOfPath(th.pattern),
                               !.out = out, !.pc = "ret"]]
    /\ UNCHANGED << music_vars, main_vars, dropdown_posted, server_var, selected_host, password_visible, dest_var,
                    destination_paths, combo_values, remote_home, after_queue,
                    dp_src, last_arrival, max_arrived >>

\* fetch_and_filter_paths reads the destination field, then calls subprocess.run
FilterReadField(n) ==
    /\ n \in 1..Len(threads)
    /\ threads[n].kind = "filter"
    /\ threads[n].pc = "tilde"
    /\ \E out \in RunResults(threads[n].host, threads[n].pattern) :
           threads' = [threads EXCEPT ![n] =
               [@ EXCEPT !.using_tilde = UsingTildeOfField(dest_var),
                         !.out = out, !.pc = "ret"]]
    /\ UNCHANGED << music_vars, main_vars, dropdown_posted, server_var, selected_host, password_visible, dest_var,
                    destination_paths, combo_values, remote_home, after_queue,
                    dp_src, last_arrival, max_arrived >>

\* subprocess.run raises or returns; the output is split into lines
ListingReturn(n) ==
    /\ n \in 1..Len(threads)
    /\ threads[n].kind \in {"paths", "filter"}
    /\ threads[n].pc = "ret"
    /\ LET th == threads[n] IN
       threads' = [threads EXCEPT ![n] =
           IF th.out.exc # "none" THEN AfterException(th, th.out.exc)
           ELSE IF HasListing(th.out)
           THEN [th EXCEPT !.lines = StdoutLines(th.out.stdout), !.i = 1,
                           !.pc = "item"]
           ELSE Finished(th)]
    /\ UNCHANGED << music_vars, main_vars, dropdown_posted, server_var, selected_host, password_visible, dest_var,
                    destination_paths, combo_values, remote_home, after_queue,
                    dp_src, last_arrival, max_arrived >>

\* one iteration of the for loop, up to the first test of self.remote_home:
\* `using_tilde and p and self.remote_home`
ListingItem(n) ==
    /\ n \in 1..Len(threads)
    /\ threads[n].pc = "item"
    /\ LET th == [threads[n] EXCEPT !.p = NormalizeLine(threads[n].lines[threads[n].i])]
       IN threads' = [threads EXCEPT ![n] =
              IF ShouldTestHome(th.using_tilde, th.p, remote_home)
              THEN [th EXCEPT !.h1 = remote_home, !.pc = "prefix"]
              ELSE Advance(th, th.p, NoHome, NoHome, NoHome)]
    /\ UNCHANGED << music_vars, main_vars, dropdown_posted, server_var, selected_host, password_visible, dest_var,
                    destination_paths, combo_values, remote_home, after_queue,
                    dp_src, last_arrival, max_arrived >>

\* p.startswith(self.remote_home): a TypeError when the cache was emptied meanwhile
ListingPrefix(n) ==
    /\ n \in 1..Len(threads)
    /\ threads[n].pc = "prefix"
    /\ LET th == threads[n] IN
       threads' = [threads EXCEPT ![n] =
           IF remote_home = NoHome THEN AfterException(th, "TypeError")
           ELSE IF HasHomePrefix(th.p, remote_home)
           THEN [th EXCEPT !.h2 = remote_home, !.pc = "slice"]
           ELSE Advance(th, th.p, th.h1, remote_home, NoHome)]
    /\ UNCHANGED << music_vars, main_vars, dropdown_posted, server_var, selected_host, password_visible, dest_var,
                    destination_paths, combo_values, remote_home, after_queue,
                    dp_src, last_arrival, max_arrived >>

\* p = '~' + p[len(self.remote_home):]
ListingSlice(n) ==
    /\ n \in 1..Len(threads)
    /\ threads[n].pc = "slice"
    /\ LET th == threads[n] IN
       threads' = [threads EXCEPT ![n] =
           IF remote_home = NoHome THEN AfterException(th, "TypeError")
           ELSE Advance(th, HomeRewrite(th.p, remote_home), th.h1, th.h2, remote_home)]
    /\ UNCHANGED << music_vars, main_vars, dropdown_posted, server_var, selected_host, password_visible, dest_var,
                    destination_paths, combo_values, remote_home, after_queue,
                    dp_src, last_arrival, max_arrived >>

\* fetch_remote_paths: self.root.after(0, self.update_destination_values, paths)
\* fetch_and_filter_paths: if paths: self.root.after(0, self.update_and_show_dropdown, paths)
ListingPost(n) ==
    /\ n \in 1..Len(threads)
    /\ threads[n].pc = "post"
    /\ LET th == threads[n] IN
       after_queue' =
           IF th.kind = "paths"
           THEN Append(after_queue, Callback("update_destination_values", n))
           ELSE IF th.paths # << >>
           THEN Append(after_queue, Callback("update_and_show_dropdown", n))
           ELSE after_queue
    /\ threads' = [threads EXCEPT ![n] = Finished(@)]
    /\ UNCHANGED << music_vars, main_vars, dropdown_posted, server_var, selected_host, password_visible, dest_var,
                    destination_paths, combo_values, remote_home,
                    dp_src, last_arrival, max_arrived >>

(***************************************************************************)
(* The home-resolution thread: fetch_and_store_home.                       *)
(***************************************************************************)
\* what subprocess.run can give for `echo $HOME` on host h
HomeRunResults(h) ==
    FailureResults \cup { RunResult("none", 0, RemoteHomeOf(h) \o << "\n" >>) }

\* fetch_remote_home's return value for what subprocess.run gave: its
\* `except Exception` handler prints and falls through to `return None`
HomeFromResult(out) ==
    IF out.exc = "none" /\ out.rc = 0 /\ Strip(out.stdout) # << >>
    THEN Strip(out.stdout)
    ELSE NoHome

\* fetch_remote_home(): None without a selected host, else the answer of the host
HomeFetch(n) ==
    /\ n \in 1..Len(threads)
    /\ threads[n].kind = "home"
    /\ threads[n].pc = "start"
    /\ IF NoHostSelected(selected_host)
       THEN threads' = [threads EXCEPT ![n] = [@ EXCEPT !.pc = "store"]]
       ELSE \E out \in HomeRunResults(selected_host) :
                threads' = [threads EXCEPT ![n] =
                    [@ EXCEPT !.host = selected_host,
                              !.home = HomeFromResult(out), !.pc = "store"]]
    /\ UNCHANGED << music_vars, main_vars, dropdown_posted, server_var, selected_host, password_visible, dest_var,
                    destination_paths, combo_values, remote_home, after_queue,
                    dp_src, last_arrival, max_arrived >>

\* self.remote_home = <the value fetched>
HomeStore(n) ==
    /\ n \in 1..Len(threads)
    /\ threads[n].kind = "home"
    /\ threads[n].pc = "store"
    /\ remote_home' = threads[n].home
    /\ threads' = [threads EXCEPT ![n] = [@ EXCEPT !.pc = "check"]]
    /\ UNCHANGED << music_vars, main_vars, dropdown_posted, server_var, selected_host, password_visible, dest_var,
                    destination_paths, combo_values, after_queue,
                    dp_src, last_arrival, max_arrived >>

\* if self.remote_home and self.destination_paths:
\*     self.root.after(0, self.apply_home_replacement_to_paths)
HomeCheck(n) ==
    /\ n \in 1..Len(threads)
    /\ threads[n].kind = "home"
    /\ threads[n].pc = "check"
    /\ after_queue' =
           IF remote_home # NoHome /\ destination_paths # << >>
           THEN Append(after_queue, Callback("apply_home_replacement_to_paths", n))
           ELSE after_queue
    /\ threads' = [threads EXCEPT ![n] = Finished(@)]
    /\ UNCHANGED << music_vars, main_vars, dropdown_posted, server_var, selected_host, password_visible, dest_var,
                    destination_paths, combo_values, remote_home,
                    dp_src, last_arrival, max_arrived >>

(***************************************************************************)
(* Handlers of the interactive thread.                                     *)
(***************************************************************************)
\* on_server_selected, with load_destination_suggestions at its end
OnServerSelected(h) ==
    /\ root_alive
    /\ h \in Hosts
    /\ CanStart(2)
    /\ server_var' = h
    /\ selected_host' = h
    /\ password_visible' =
           IF ~HasIdentityFile(h) /\ ~password_visible THEN TRUE
           ELSE IF HasIdentityFile(h) /\ password_visible THEN FALSE
           ELSE password_visible
    /\ destination_paths' = Placeholder
    /\ combo_values' = Placeholder
    /\ dest_var' = TILDE_SLASH
    /\ threads' = threads \o << Thread("home", "start", << >>, << >>),
                               Thread("paths", "start", TILDE_SLASH, TILDE_SLASH) >>
    /\ dp_src' = PlaceholderSrc(h)
    /\ last_arrival' = [tid |-> 0, paths |-> Placeholder]
    /\ UNCHANGED << music_vars, main_vars, dropdown_posted, remote_home, after_queue, max_arrived >>

\* on_dest_focus: `if not self.destination_paths: self.load_destination_suggestions()`
OnDestFocus ==
    IF destination_paths = << >> /\ ~NoHostSelected(selected_host) /\ CanStart(1)
    THEN /\ destination_paths' = Placeholder
         /\ combo_values' = Placeholder
         /\ dest_var' = TILDE_SLASH
         /\ threads' = Append(threads, Thread("paths", "start", TILDE_SLASH, TILDE_SLASH))
         /\ dp_src' = PlaceholderSrc(selected_host)
         /\ last_arrival' = [tid |-> 0, paths |-> Placeholder]
         /\ UNCHANGED << music_vars, main_vars, dropdown_posted, server_var, selected_host, password_visible,
                         remote_home, after_queue, max_arrived >>
    ELSE UNCHANGED << music_vars, main_vars, dialog_vars >>

\* on_dest_selected: the path chosen in the dropdown, with a '/' at its end
SelectedPath(c) == IF EndsWithSlash(c) THEN c ELSE c \o << "/" >>

\* the selection closes the list of the combobox
OnDestSelected(k) ==
    /\ k \in 1..Len(combo_values)
    /\ CanStart(1)
    /\ dest_var' = SelectedPath(combo_values[k])
    /\ threads' = Append(threads,
           Thread("paths", "start", SelectedPath(combo_values[k]),
                  SelectedPath(combo_values[k])))
    /\ dropdown_posted' = FALSE
    /\ UNCHANGED << music_vars, main_vars, server_var, selected_host, password_visible, destination_paths,
                    combo_values, remote_home, after_queue, dp_src, last_arrival,
                    max_arrived >>

\* current_text.rfind('/') + 1, and 0 when there is no '/'
AfterLastSlash(text) ==
    LET S == { i \in 1..Len(text) : text[i] = "/" }
    IN IF S = {} THEN 0 ELSE CHOOSE i \in S : \A j \in S : j <= i

\* on_dest_typing: dir_path
DirPath(text) ==
    IF AfterLastSlash(text) > 0 THEN SubSeq(text, 1, AfterLastSlash(text))
    ELSE TILDE_SLASH

\* on_dest_typing: prefix
PrefixOf(text) ==
    IF AfterLastSlash(text) > 0 THEN SliceFrom(text, AfterLastSlash(text)) ELSE text

\* on_dest_typing after a key that changed the text to `text`
OnDestTyping(text) ==
    /\ root_alive
    /\ text \in TypedTexts \cup {<< >>}
    /\ text # dest_var
    /\ text # << >> => CanStart(1)
    /\ dest_var' = text
    /\ threads' =
           IF text # << >>
           THEN Append(threads,
                    Thread("filter", "start", DirPath(text) \o PrefixOf(text), text))
           ELSE threads
    /\ UNCHANGED << music_vars, main_vars, dropdown_posted, server_var, selected_host, password_visible, destination_paths,
                    combo_values, remote_home, after_queue, dp_src, last_arrival,
                    max_arrived >>

\* update_and_show_dropdown that replaces the placeholder list only
UpdateAndShowDropdownOnce(cur, paths) ==
    IF paths # << >> /\ cur = Placeholder THEN paths ELSE cur

\* update_destination_values that installs the result last line first
UpdateDestinationValuesReversed(cur, paths) ==
    IF paths # << >> THEN [ k \in 1..Len(paths) |-> paths[Len(paths) + 1 - k] ] ELSE cur

\* update_destination_values(paths): the new value of the list it assigns
UpdateDestinationValues(cur, paths) == IF paths # << >> THEN paths ELSE cur

\* update_and_show_dropdown(paths): the new value of the list it assigns
UpdateAndShowDropdown(cur, paths) == IF paths # << >> THEN paths ELSE cur

\* update_and_show_dropdown that opens the list when it has updated the values
DropdownAfterUpdateAutoOpen(posted, paths) == IF paths # << >> THEN TRUE ELSE posted

\* update_and_show_dropdown(paths): whether the list is open afterwards; the
\* function sets the values and the cursor and posts nothing
DropdownAfterUpdate(posted, paths) == posted

\* the user clicks the arrow of the destination combobox (or presses Down, or
\* Escape with the list open): Tk opens or closes the list; no handler runs
OnDropdownArrow ==
    /\ dropdown_posted' = ~dropdown_posted
    /\ UNCHANGED << music_vars, main_vars, server_var, selected_host, password_visible, dest_var,
                    destination_paths, combo_values, remote_home, threads,
                    after_queue, dp_src, last_arrival, max_arrived >>

\* ReplaceHomeIn that adds no '/' to a path that already uses '~'
ReplaceHomeInBareTilde(path, home) ==
    LET p == RStripSlash(path) IN
    IF StartsWith(p, TILDE) THEN p
    ELSE IF HasHomePrefix(p, home) THEN HomeRewrite(p, home) \o << "/" >>
    ELSE p \o << "/" >>

\* apply_home_replacement_to_paths: one iteration of its loop
ReplaceHomeIn(path, home) ==
    LET p == RStripSlash(path) IN
    IF StartsWith(p, TILDE) THEN p \o << "/" >>
    ELSE IF HasHomePrefix(p, home) THEN HomeRewrite(p, home) \o << "/" >>
    ELSE p \o << "/" >>

\* apply_home_replacement_to_paths whose `continue` for a path that uses '~'
\* comes before the append
ApplyHomeReplacementDroppingTilde(paths, home) ==
    LET NotTilde(path) == ~StartsWith(RStripSlash(path), TILDE)
        kept == SelectSeq(paths, NotTilde)
    IN IF home = NoHome \/ paths = << >> THEN paths
       ELSE [ k \in 1..Len(kept) |-> ReplaceHomeIn(kept[k], home) ]

\* apply_home_replacement_to_paths: updated_paths
ApplyHomeReplacementToPaths(paths, home) ==
    IF home = NoHome \/ paths = << >> THEN paths
    ELSE [ k \in 1..Len(paths) |-> ReplaceHomeIn(paths[k], home) ]

\* apply_home_replacement_to_paths: the text of the field afterwards
ApplyHomeReplacementToField(current, paths, home) ==
    IF home = NoHome \/ paths = << >> THEN current
    ELSE IF current # << >> /\ ~StartsWith(current, TILDE) /\ StartsWith(current, home)
    THEN HomeRewrite(current, home)
    ELSE current

\* history of a list after apply_home_replacement_to_paths: the entries it rewrote
\* were rewritten with the cache value `home`
ProvAfterApply(prov, old, new, home) ==
    [ k \in 1..Len(prov) |->
        IF k <= Len(old) /\ k <= Len(new) /\ old[k] # new[k]
        THEN [prov[k] EXCEPT !.h1 = home, !.h2 = home, !.h3 = home, !.by = "apply"]
        ELSE prov[k] ]

\* the interactive thread runs the next callback scheduled with root.after
Deliver ==
    /\ after_queue # << >>
    /\ after_queue' = Tail(after_queue)
    /\ LET m == Head(after_queue)
           new == IF m.fn = "update_destination_values"
                  THEN UpdateDestinationValues(destination_paths, m.paths)
                  ELSE IF m.fn = "update_and_show_dropdown"
                  THEN UpdateAndShowDropdown(destination_paths, m.paths)
                  ELSE ApplyHomeReplacementToPaths(destination_paths, remote_home)
       IN /\ destination_paths' = new
          /\ combo_values' = new
          /\ dest_var' = IF m.fn = "apply_home_replacement_to_paths"
                         THEN ApplyHomeReplacementToField(dest_var, destination_paths,
                                                          remote_home)
                         ELSE dest_var
          /\ dp_src' = IF m.fn = "apply_home_replacement_to_paths"
                       THEN [dp_src EXCEPT !.prov =
                                ProvAfterApply(@, destination_paths, new, remote_home)]
                       ELSE IF m.paths # << >> THEN SrcOf(m) ELSE dp_src
          /\ last_arrival' =
                 IF m.fn = "apply_home_replacement_to_paths"
                 THEN [last_arrival EXCEPT !.paths =
                          ApplyHomeReplacementToPaths(@, remote_home)]
                 ELSE IF m.paths # << >> THEN [tid |-> m.tid, paths |-> m.paths]
                 ELSE last_arrival
          /\ max_arrived' =
                 IF m.fn = "apply_home_replacement_to_paths"
                 THEN [max_arrived EXCEPT !.paths =
                          ApplyHomeReplacementToPaths(@, remote_home)]
                 ELSE IF m.paths # << >> /\ m.tid > max_arrived.tid
                 THEN [tid |-> m.tid, paths |-> m.paths]
                 ELSE max_arrived
          /\ dropdown_posted' =
                 IF m.fn = "update_and_show_dropdown"
                 THEN DropdownAfterUpdate(dropdown_posted, m.paths)
                 ELSE dropdown_posted
    /\ UNCHANGED << music_vars, main_vars, server_var, selected_host, password_visible, remote_home, threads >>

DialogNext ==
    \/ \E n \in 1..MaxThreads : ListingStart(n)
    \/ \E n \in 1..MaxThreads : FilterReadField(n)
    \/ \E n \in 1..MaxThreads : ListingReturn(n)
    \/ \E n \in 1..MaxThreads : ListingItem(n)
    \/ \E n \in 1..MaxThreads : ListingPrefix(n)
    \/ \E n \in 1..MaxThreads : ListingSlice(n)
    \/ \E n \in 1..MaxThreads : ListingPost(n)
    \/ \E n \in 1..MaxThreads : HomeFetch(n)
    \/ \E n \in 1..MaxThreads : HomeStore(n)
    \/ \E n \in 1..MaxThreads : HomeCheck(n)
    \/ \E h \in Hosts : OnServerSelected(h)
    \/ OnDestFocus
    \/ \E k \in 1..MaxLines : OnDestSelected(k)
    \/ \E text \in TypedTexts : OnDestTyping(text)
    \/ Deliver

(***************************************************************************)
(* The end of the dialog: copy(), cancel(), show().                        *)
(***************************************************************************)
\* texts the user can put in the password field
Passwords == {"", "pw"}

\* the user edits the password field, which is packed only while
\* self.password_visible
TypePassword(pw) ==
    /\ root_alive
    /\ pw \in Passwords
    /\ password_visible
    /\ pw # password_var
    /\ password_var' = pw
    /\ UNCHANGED << music_vars, dialog_vars, create_dest_var, result, root_alive,
                    main_pc, config, warned, scp_out, ret, raised >>

\* the user clicks the "create destination" checkbox
ToggleCreateDest ==
    /\ root_alive
    /\ create_dest_var' = ~create_dest_var
    /\ UNCHANGED << music_vars, dialog_vars, password_var, result, root_alive,
                    main_pc, config, warned, scp_out, ret, raised >>

\* copy() that does not test the two fields
CopyAllowedAlways(server, dest) == TRUE

\* copy(): neither `not self.server_var.get()` nor `not self.dest_var.get()`
CopyAllowed(server, dest) == server # None /\ dest # << >>

\* copy(): the dict assigned to self.result
ResultOfCopy ==
    [ host |-> selected_host,
      destination |-> dest_var,
      password |-> IF password_var # "" THEN password_var ELSE "None",
      create_destination |-> create_dest_var ]

\* copy(): an error box and return, or self.result is set and the root destroyed
Copy ==
    /\ root_alive
    /\ IF CopyAllowed(server_var, dest_var)
       THEN result' = << ResultOfCopy >> /\ root_alive' = FALSE
       ELSE UNCHANGED << result, root_alive >>
    /\ UNCHANGED << music_vars, dialog_vars, password_var, create_dest_var, main_pc,
                    config, warned, scp_out, ret, raised >>

\* cancel()
Cancel ==
    /\ root_alive
    /\ result' = NoDict
    /\ root_alive' = FALSE
    /\ UNCHANGED << music_vars, dialog_vars, password_var, create_dest_var, main_pc,
                    config, warned, scp_out, ret, raised >>

\* show(): mainloop() has returned, show returns self.result to main(), which
\* returns when it is None and calls copy_files_to_server otherwise
ShowReturn ==
    /\ main_pc = "show"
    /\ ~root_alive
    /\ config' = result
    /\ main_pc' = IF result = NoDict THEN "done" ELSE "mkdir"
    /\ UNCHANGED << music_vars, dialog_vars, password_var, create_dest_var, result,
                    root_alive, warned, scp_out, ret, raised >>

(***************************************************************************)
(* copy_files_to_server(file_paths, config).                               *)
(***************************************************************************)
\* what subprocess.run(['which', 'sshpass']) can give: found, not found, or
\* `which` itself cannot be started
WhichResults == {"found", "missing", "OSError"}

\* what subprocess.run of ssh or scp can give: an exit status or an exception
CommandResults ==
    { [ran |-> TRUE, exc |-> "none", rc |-> 0],
      [ran |-> TRUE, exc |-> "none", rc |-> 1],
      [ran |-> TRUE, exc |-> "TimeoutExpired", rc |-> 0],
      [ran |-> FALSE, exc |-> "OSError", rc |-> 0] }

\* `password and (not identity_file or not os.path.exists(identity_file))`
NeedsSshpass(cfg) == cfg.password # "None" /\ ~HasIdentityFile(cfg.host)

\* a handler that catches the errors of subprocess only
CaughtSubprocessErrorsOnly(exc) == exc \in {"TimeoutExpired", "CalledProcessError"}

\* `except Exception as e:` in copy_files_to_server
CaughtInCopy(exc) ==
    exc \in {"TimeoutExpired", "CalledProcessError", "OSError", "Exception"}

\* `if create_destination:` ssh ... mkdir -p, run with check=True inside a try
\* whose handler prints a warning
CopyMkdir ==
    /\ main_pc = "mkdir"
    /\ IF ~config[1].create_destination
       THEN main_pc' = "scp" /\ UNCHANGED << warned, raised >>
       ELSE \E w \in WhichResults, out \in CommandResults :
                LET exc == IF NeedsSshpass(config[1]) /\ w = "OSError" THEN "OSError"
                           ELSE IF out.exc # "none" THEN out.exc
                           ELSE IF out.rc # 0 THEN "CalledProcessError"
                           ELSE "none"
                    escapes == exc # "none" /\ ~CaughtInCopy(exc)
                IN /\ warned' = (exc # "none" /\ ~escapes)
                   /\ raised' = escapes
                   /\ main_pc' = IF escapes THEN "done" ELSE "scp"
    /\ UNCHANGED << music_vars, dialog_vars, password_var, create_dest_var, result,
                    root_alive, config, scp_out, ret >>

\* the value copy_files_to_server returns from its handler: (False, str(e))
Failure(text) == << "False", text >>

\* the try block before scp is run: with a password and no identity file,
\* `which sshpass`, and an Exception when it is not found
CopyScpCheck ==
    /\ main_pc = "scp"
    /\ \E w \in WhichResults :
           LET exc == IF ~NeedsSshpass(config[1]) \/ w = "found" THEN "none"
                      ELSE IF w = "missing" THEN "Exception"
                      ELSE "OSError"
           IN IF exc = "none"
              THEN main_pc' = "run" /\ UNCHANGED << ret, raised >>
              ELSE /\ main_pc' = "done"
                   /\ raised' = ~CaughtInCopy(exc)
                   /\ ret' = IF CaughtInCopy(exc)
                             THEN Failure(IF w = "missing" THEN "sshpass" ELSE exc)
                             ELSE ret
    /\ UNCHANGED << music_vars, dialog_vars, password_var, create_dest_var, result,
                    root_alive, config, warned, scp_out >>

\* subprocess.run(scp_cmd, timeout=300), `if result.returncode != 0: raise`,
\* `return True, "Files copied successfully!"`, and the handler
CopyScpRun ==
    /\ main_pc = "run"
    /\ \E out \in CommandResults :
           LET exc == IF out.exc # "none" THEN out.exc
                      ELSE IF out.rc # 0 THEN "Exception"
                      ELSE "none"
           IN /\ scp_out' = out
              /\ raised' = (exc # "none" /\ ~CaughtInCopy(exc))
              /\ ret' = IF exc = "none" THEN << "True", "Files copied successfully!" >>
                        ELSE IF CaughtInCopy(exc)
                        THEN Failure(IF out.exc = "none" THEN "SCP failed" ELSE exc)
                        ELSE ret
    /\ main_pc' = "done"
    /\ UNCHANGED << music_vars, dialog_vars, password_var, create_dest_var, result,
                    root_alive, config, warned >>

\* main() from the construction of the dialog to its return
MainNext ==
    \/ \E h \in Hosts : OnServerSelected(h)
    \/ \E text \in TypedTexts \cup {<< >>} : OnDestTyping(text)
    \/ \E pw \in Passwords : TypePassword(pw)
    \/ ToggleCreateDest
    \/ Copy
    \/ Cancel
    \/ ShowReturn
    \/ CopyMkdir
    \/ CopyScpCheck
    \/ CopyScpRun

(***************************************************************************)
(* process_audio_file, step by step.                                       *)
(***************************************************************************)
SupportedExts == {".mp3", ".m4a"}

\* `if x:` for the Python values of the model
Truthy(v) == v \notin {"False", "None", ""}

ProcessInit ==
    /\ pc = "start"
    /\ file_exists \in BOOLEAN
    /\ file_ext \in SupportedExts \cup {".wav"}
    /\ existing \in SUBSET (0..MaxTaken)
    /\ acoustid_results = "None"
    /\ attempt = 0
    /\ retry_delay = 1
    /\ sleeps = << >>
    /\ lookups = << >>
    /\ mb_return = "None"
    /\ initial_metadata = "None"
    /\ dialog_action = "None"
    /\ user_confirmed = "None"
    /\ confirmed_metadata = "None"
    /\ destination = 0
    /\ counter = 0
    /\ move_raises \in BOOLEAN
    /\ moved = FALSE
    /\ returned = "None"

\* the two checks at the top of process_audio_file
CheckFile ==
    /\ pc = "start"
    /\ IF ~file_exists \/ file_ext \notin SupportedExts
       THEN pc' = "done" /\ returned' = "False"
       ELSE pc' = "acoustid" /\ UNCHANGED returned
    /\ UNCHANGED << dialog_vars, main_vars, counter, file_exists, file_ext, existing, acoustid_results, attempt,
                    retry_delay, sleeps, lookups, mb_return, initial_metadata, dialog_action,
                    user_confirmed, confirmed_metadata, destination, move_raises,
                    moved >>

\* initial_metadata when no lookup gave metadata: the 'Unknown' record
UnknownIfNone(md) == IF Truthy(md) THEN md ELSE "unknown"

\* get_acoustid_fingerprint and the loop over its results: only a first match
\* with score > 0.5 is looked up
Fingerprint(res) ==
    /\ pc = "acoustid"
    /\ res \in {"None", "low", "high"}
    /\ acoustid_results' = res
    /\ IF res = "high"
       THEN pc' = "musicbrainz" /\ UNCHANGED initial_metadata
       ELSE pc' = "dialog" /\ initial_metadata' = UnknownIfNone("None")
    /\ UNCHANGED << dialog_vars, main_vars, counter, file_exists, file_ext, existing, attempt, retry_delay, sleeps,
                    lookups, mb_return, dialog_action, user_confirmed, confirmed_metadata, destination,
                    move_raises, moved, returned >>

\* a delay that grows by one second
NextDelayLinear(d) == d + 1

\* retry_delay *= 2
NextDelay(d) == d * 2

\* get_metadata_from_musicbrainz: one iteration of `for attempt in range(max_retries)`;
\* res is "ok", "connection" (an error whose text names a connection error) or "other"
Lookup(res) ==
    /\ pc = "musicbrainz"
    /\ res \in {"ok", "connection", "other"}
    /\ lookups' = Append(lookups, res)
    /\ IF res = "connection" /\ attempt < max_retries - 1
       THEN /\ sleeps' = Append(sleeps, retry_delay)
            /\ retry_delay' = NextDelay(retry_delay)
            /\ attempt' = attempt + 1
            /\ UNCHANGED << pc, initial_metadata, mb_return >>
       ELSE /\ mb_return' = IF res = "ok" THEN "found" ELSE "None"
            /\ initial_metadata' = UnknownIfNone(IF res = "ok" THEN "found" ELSE "None")
            /\ pc' = "dialog"
            /\ UNCHANGED << sleeps, retry_delay, attempt >>
    /\ UNCHANGED << dialog_vars, main_vars, counter, file_exists, file_ext, existing, acoustid_results, dialog_action,
                    user_confirmed, confirmed_metadata, destination, move_raises,
                    moved, returned >>

\* show_editable_metadata_dialog: what it returns when the dialog ended with
\* `action` ("import", "cancel"), or raised and the fallback prompt was answered
\* ("y", "n")
ShowEditableMetadataDialog(action) ==
    IF action \in {"import", "y"} THEN << "True", "metadata" >>
    ELSE << "False", "None" >>

\* show_confirmation_dialog: it compares the first value it got with 'import'
\* and 'retry'
ShowConfirmationDialog(action) ==
    LET r == ShowEditableMetadataDialog(action) IN
    IF r[1] = "import" THEN << "True", r[2] >>
    ELSE IF r[1] = "retry" THEN << "retry", r[2] >>
    ELSE << "False", "None" >>

\* the name the file is moved to: the file's own name if it is free, else the
\* first base_k.ext (k = 1, 2, ...) that does not exist
RECURSIVE FirstFree(_, _)
FirstFree(taken, k) == IF k \in taken THEN FirstFree(taken, k + 1) ELSE k

Destination(taken) == IF 0 \in taken THEN FirstFree(taken, 1) ELSE 0

\* the dialog is shown and answered; the rest of process_audio_file runs:
\* without confirmation it returns False; else the tags are written, the
\* destination is chosen and shutil.move moves the file or raises
ConfirmAndMove(action) ==
    /\ pc = "dialog"
    /\ action \in {"import", "cancel", "y", "n"}
    /\ dialog_action' = action
    /\ user_confirmed' = ShowConfirmationDialog(action)[1]
    /\ confirmed_metadata' = ShowConfirmationDialog(action)[2]
    /\ pc' = "done"
    /\ IF ~Truthy(ShowConfirmationDialog(action)[1])
       THEN /\ returned' = "False"
            /\ UNCHANGED << destination, moved, existing >>
       ELSE /\ destination' = Destination(existing)
            /\ moved' = ~move_raises
            /\ existing' = IF move_raises THEN existing
                           ELSE existing \cup {Destination(existing)}
            /\ returned' = IF move_raises THEN "False" ELSE "True"
    /\ UNCHANGED << dialog_vars, main_vars, counter, file_exists, file_ext, acoustid_results, attempt, retry_delay,
                    sleeps, lookups, mb_return, initial_metadata, move_raises >>

\* os.path.exists that never finds the name
ExistsNever(name, taken) == FALSE

\* os.path.exists(destination) for a name of the import directory
Exists(name, taken) == name \in taken

\* destination = os.path.join(MUSIC_IMPORT_DIR, filename);
\* `if os.path.exists(destination):` ... counter = 1
MoveJoin ==
    /\ pc = "join"
    /\ destination' = 0
    /\ IF Exists(0, existing)
       THEN counter' = 1 /\ pc' = "while"
       ELSE counter' = counter /\ pc' = "move"
    /\ UNCHANGED << dialog_vars, main_vars, file_exists, file_ext, existing,
                    acoustid_results, attempt, retry_delay, sleeps, lookups, mb_return,
                    initial_metadata, dialog_action, user_confirmed,
                    confirmed_metadata, move_raises, moved, returned >>

\* one test of `while os.path.exists(destination):` and, when it holds, the body
MoveWhile ==
    /\ pc = "while"
    /\ IF Exists(destination, existing)
       THEN destination' = counter /\ counter' = counter + 1 /\ pc' = pc
       ELSE pc' = "move" /\ UNCHANGED << destination, counter >>
    /\ UNCHANGED << dialog_vars, main_vars, file_exists, file_ext, existing,
                    acoustid_results, attempt, retry_delay, sleeps, lookups, mb_return,
                    initial_metadata, dialog_action, user_confirmed,
                    confirmed_metadata, move_raises, moved, returned >>

\* shutil.move(file_path, destination) and the two returns
MoveFile ==
    /\ pc = "move"
    /\ moved' = ~move_raises
    /\ existing' = IF move_raises THEN existing ELSE existing \cup {destination}
    /\ returned' = IF move_raises THEN "False" ELSE "True"
    /\ pc' = "done"
    /\ UNCHANGED << dialog_vars, main_vars, file_exists, file_ext, acoustid_results,
                    attempt, retry_delay, sleeps, lookups, mb_return, initial_metadata,
                    dialog_action, user_confirmed, confirmed_metadata, destination,
                    counter, move_raises >>

\* process_audio_file past `if not user_confirmed`, for a confirmed import
MoveInit ==
    /\ pc = "join"
    /\ file_exists = TRUE
    /\ file_ext \in SupportedExts
    /\ existing \in SUBSET (0..MaxTaken)
    /\ acoustid_results \in {"None", "high"}
    /\ attempt = 0
    /\ retry_delay = 1
    /\ sleeps = << >>
    /\ lookups = << >>
    /\ mb_return = "None"
    /\ initial_metadata = "unknown"
    /\ dialog_action = "import"
    /\ user_confirmed = "True"
    /\ confirmed_metadata = "metadata"
    /\ destination = 0
    /\ counter = 0
    /\ move_raises \in BOOLEAN
    /\ moved = FALSE
    /\ returned = "None"

MoveNext == MoveJoin \/ MoveWhile \/ MoveFile

ProcessNext ==
    \/ CheckFile
    \/ \E res \in {"None", "low", "high"} : Fingerprint(res)
    \/ \E res \in {"ok", "connection", "other"} : Lookup(res)
    \/ \E action \in {"import", "cancel", "y", "n"} : ConfirmAndMove(action)

\* the music variables while only the dialog of copy_to_server.py runs
ProcessIdle ==
    /\ pc = "idle"
    /\ file_exists = FALSE
    /\ file_ext = ""
    /\ existing = {}
    /\ acoustid_results = "None"
    /\ attempt = 0
    /\ retry_delay = 1
    /\ sleeps = << >>
    /\ lookups = << >>
    /\ mb_return = "None"
    /\ initial_metadata = "None"
    /\ dialog_action = "None"
    /\ user_confirmed = "None"
    /\ confirmed_metadata = "None"
    /\ destination = 0
    /\ counter = 0
    /\ move_raises = FALSE
    /\ moved = FALSE
    /\ returned = "None"

\* the dialog variables while only add_to_music.py runs
DialogIdle ==
    /\ server_var = None
    /\ selected_host = None
    /\ password_visible = FALSE
    /\ dest_var = << >>
    /\ destination_paths = << >>
    /\ combo_values = << >>
    /\ remote_home = NoHome
    /\ threads = << >>
    /\ after_queue = << >>
    /\ dropdown_posted = FALSE
    /\ dp_src = PlaceholderSrc(None)
    /\ last_arrival = [tid |-> 0, paths |-> << >>]
    /\ max_arrived = [tid |-> 0, paths |-> << >>]

(***************************************************************************)
(* Specifications.                                                         *)
(***************************************************************************)
vars == << dialog_vars, music_vars, main_vars >>

Init == DialogInit /\ ProcessIdle /\ MainIdle

Next == DialogNext

\* a session of ServerCopyDialog (copy_to_server.py)
Spec == Init /\ [][Next]_vars

MusicInit == ProcessInit /\ DialogIdle /\ MainIdle

MusicNext == ProcessNext

\* process_audio_file on one file (add_to_music.py)
SpecMusic == MusicInit /\ [][MusicNext]_vars

(***************************************************************************)
(* A listing thread taken alone, from the return of subprocess.run on:     *)
(* the remote output is any text of up to MaxOutput characters, and the    *)
(* home-directory cache is empty or holds ListingHome, and does not change *)
(* while the thread runs.                                                  *)
(***************************************************************************)
\* characters of result.stdout
OutputChars == {"/", "a", " ", "\n"}

\* longest result.stdout
MaxOutput == 5

Outputs == UNION { [1..k -> OutputChars] : k \in 0..MaxOutput }

\* a home directory made of the characters of OutputChars
ListingHome == <<"/", "a">>

\* the dialog with its first listing query replaced by one for `pattern`, run
\* by fetch_remote_paths or fetch_and_filter_paths, whose subprocess.run has
\* returned
ListingInit ==
    /\ server_var = FirstHost
    /\ selected_host = FirstHost
    /\ password_visible = ~HasIdentityFile(FirstHost)
    /\ destination_paths = Placeholder
    /\ combo_values = Placeholder
    /\ remote_home \in {NoHome, ListingHome}
    /\ \E kind \in {"paths", "filter"}, pattern \in {TILDE_SLASH, ListingHome \o <<"/">>},
          s \in Outputs :
           /\ dest_var = pattern
           /\ threads =
                << Finished(Thread("home", "start", << >>, << >>)),
                   [ Thread(kind, "ret", pattern, pattern) EXCEPT
                       !.host = FirstHost,
                       !.using_tilde = UsingTildeOfPath(pattern),
                       !.out = RunResult("none", 0, s) ] >>
    /\ after_queue = << >>
    /\ dropdown_posted = FALSE
    /\ dp_src = PlaceholderSrc(FirstHost)
    /\ last_arrival = [tid |-> 0, paths |-> Placeholder]
    /\ max_arrived = [tid |-> 0, paths |-> << >>]
    /\ ProcessIdle
    /\ MainIdle

ListingNext ==
    \/ \E n \in 1..MaxThreads : ListingReturn(n)
    \/ \E n \in 1..MaxThreads : ListingItem(n)
    \/ \E n \in 1..MaxThreads : ListingPrefix(n)
    \/ \E n \in 1..MaxThreads : ListingSlice(n)
    \/ \E n \in 1..MaxThreads : ListingPost(n)
    \/ Deliver

\* the processing of one listing output (copy_to_server.py)
SpecListing == ListingInit /\ [][ListingNext]_vars

(***************************************************************************)
(* The thread targets called with and without a selected host: a dialog    *)
(* built with no hosts (selected_host is None, the list is empty) or with  *)
(* FirstHost selected, in which fetch_and_store_home, fetch_remote_paths   *)
(* and fetch_and_filter_paths have each been started once.                 *)
(***************************************************************************)
CallsInit ==
    /\ selected_host \in {None, FirstHost}
    /\ server_var = selected_host
    /\ password_visible = FALSE
    /\ dest_var = <<"~", "/", "d">>
    /\ destination_paths = IF NoHostSelected(selected_host) THEN << >> ELSE Placeholder
    /\ combo_values = destination_paths
    /\ remote_home = NoHome
    /\ threads = << Thread("home", "start", << >>, << >>),
                    Thread("paths", "start", TILDE_SLASH, TILDE_SLASH),
                    Thread("filter", "start", <<"~", "/", "d">>, <<"~", "/", "d">>) >>
    /\ after_queue = << >>
    /\ dropdown_posted = FALSE
    /\ dp_src = [PlaceholderSrc(selected_host) EXCEPT
                    !.prov = IF NoHostSelected(selected_host) THEN << >> ELSE @]
    /\ last_arrival = [tid |-> 0, paths |-> destination_paths]
    /\ max_arrived = [tid |-> 0, paths |-> << >>]
    /\ ProcessIdle
    /\ MainIdle

CallsNext ==
    \/ \E n \in 1..MaxThreads : ListingStart(n)
    \/ \E n \in 1..MaxThreads : FilterReadField(n)
    \/ \E n \in 1..MaxThreads : ListingReturn(n)
    \/ \E n \in 1..MaxThreads : ListingItem(n)
    \/ \E n \in 1..MaxThreads : ListingPrefix(n)
    \/ \E n \in 1..MaxThreads : ListingSlice(n)
    \/ \E n \in 1..MaxThreads : ListingPost(n)
    \/ \E n \in 1..MaxThreads : HomeFetch(n)
    \/ \E n \in 1..MaxThreads : HomeStore(n)
    \/ \E n \in 1..MaxThreads : HomeCheck(n)
    \/ OnDestFocus
    \/ OnDropdownArrow
    \/ Deliver

\* the thread targets with and without a selected host (copy_to_server.py)
SpecCalls == CallsInit /\ [][CallsNext]_vars

(***************************************************************************)
(* One listing output processed while the home resolution completes: the  *)
(* home thread has fetched ListingHome and is about to store it, so the    *)
(* listing is delivered before or after apply_home_replacement_to_paths.   *)
(***************************************************************************)
ApplyInit ==
    /\ server_var = FirstHost
    /\ selected_host = FirstHost
    /\ password_visible = ~HasIdentityFile(FirstHost)
    /\ destination_paths = Placeholder
    /\ combo_values = Placeholder
    /\ remote_home = NoHome
    /\ \E kind \in {"paths", "filter"}, pattern \in {TILDE_SLASH, ListingHome \o <<"/">>},
          s \in Outputs :
           /\ dest_var = pattern
           /\ threads =
                << [ Thread("home", "store", << >>, << >>) EXCEPT
                       !.host = FirstHost, !.home = ListingHome ],
                   [ Thread(kind, "ret", pattern, pattern) EXCEPT
                       !.host = FirstHost,
                       !.using_tilde = UsingTildeOfPath(pattern),
                       !.out = RunResult("none", 0, s) ] >>
    /\ after_queue = << >>
    /\ dropdown_posted = FALSE
    /\ dp_src = PlaceholderSrc(FirstHost)
    /\ last_arrival = [tid |-> 0, paths |-> Placeholder]
    /\ max_arrived = [tid |-> 0, paths |-> << >>]
    /\ ProcessIdle
    /\ MainIdle

ApplyNext ==
    \/ \E n \in 1..MaxThreads : ListingReturn(n)
    \/ \E n \in 1..MaxThreads : ListingItem(n)
    \/ \E n \in 1..MaxThreads : ListingPrefix(n)
    \/ \E n \in 1..MaxThreads : ListingSlice(n)
    \/ \E n \in 1..MaxThreads : ListingPost(n)
    \/ \E n \in 1..MaxThreads : HomeStore(n)
    \/ \E n \in 1..MaxThreads : HomeCheck(n)
    \/ Deliver

\* a listing output and the completion of the home resolution (copy_to_server.py)
SpecApply == ApplyInit /\ [][ApplyNext]_vars

(***************************************************************************)
(* main(): the dialog as the user fills it in and ends it, then            *)
(* copy_files_to_server with the config the dialog returned.  The dialog   *)
(* is the one main() builds, or one built with no hosts (no server         *)
(* selected).                                                              *)
(***************************************************************************)
MainInit ==
    /\ DialogInit \/ DialogIdle
    /\ ProcessIdle
    /\ MainIdle

\* main() of copy_to_server.py
SpecMain == MainInit /\ [][MainNext]_vars

MoveStart == MoveInit /\ DialogIdle /\ MainIdle

\* the choice of the destination name and the move (add_to_music.py), for every
\* content of the import directory
SpecMove == MoveStart /\ [][MoveNext]_vars

(***************************************************************************)
(* Properties.                                                             *)
(***************************************************************************)
\* every candidate sequence of the session with its history: those the listing
\* threads are building, those scheduled for delivery, and the candidate list
ListingViews ==
    { [ paths |-> threads[n].paths, prov |-> threads[n].prov,
        ut |-> threads[n].using_tilde, kind |-> threads[n].kind,
        qtilde |-> StartsWith(threads[n].qtext, TILDE_SLASH) ] :
          n \in { m \in 1..Len(threads) :
                    threads[m].kind # "home" /\ threads[m].paths # << >> } }
    \cup
    { [ paths |-> after_queue[j].paths, prov |-> after_queue[j].prov,
        ut |-> after_queue[j].using_tilde, kind |-> after_queue[j].kind,
        qtilde |-> after_queue[j].qtilde ] :
          j \in { i \in 1..Len(after_queue) : after_queue[i].kind # "home" } }
    \cup
    { [ paths |-> destination_paths, prov |-> dp_src.prov,
        ut |-> dp_src.using_tilde, kind |-> dp_src.kind,
        qtilde |-> dp_src.qtilde ] }

\* candidate k of view v is not the normalized line it came from with a '/'
Rewritten(v, k) == v.paths[k] # v.prov[k].c \o << "/" >>

\* every listing thread has returned and every scheduled callback has run
AllDelivered ==
    /\ after_queue = << >>
    /\ \A n \in 1..Len(threads) : threads[n].pc = "done"

\* C1: for an existing .mp3 or .m4a file, when the user pressed Import and
\* shutil.move does not fail, process_audio_file moves the file and returns
\* True; it returns False without moving the file only when the user cancelled
\* or the file is missing or unsupported.
C1_ImportMovesFile ==
    pc = "done" =>
        /\ (file_exists /\ file_ext \in SupportedExts /\ dialog_action = "import"
              /\ ~move_raises)
             => (moved /\ returned = "True")
        /\ (returned = "False" /\ ~moved /\ ~move_raises)
             => \/ dialog_action \in {"cancel", "n"}
                \/ ~file_exists
                \/ file_ext \notin SupportedExts

\* C2: in every reachable state every element of destination_paths is a
\* non-empty string that ends with '/'.
C2_CandidatesEndWithSlash ==
    \A k \in 1..Len(destination_paths) :
        /\ destination_paths[k] # << >>
        /\ destination_paths[k][Len(destination_paths[k])] = "/"

\* C2 witness: the list holds a delivered listing result that
\* apply_home_replacement_to_paths has rewritten
C2_DeliveredAndRewritten ==
    /\ dp_src.tid # 0
    /\ Len(destination_paths) = 2
    /\ \A k \in 1..Len(dp_src.prov) : dp_src.prov[k].by = "apply"

\* C3 as stated: a candidate's home prefix is replaced by '~' only when the
\* query that produced it began with '~/'; a candidate of an absolute-path
\* query is never rewritten, by any operation.
C3_RewriteOnlyForTildeQueries ==
    \A v \in ListingViews : \A k \in 1..Len(v.paths) :
        Rewritten(v, k) => v.qtilde

\* C3 amended: a listing thread rewrites a candidate only when its using_tilde
\* flag is set, which fetch_remote_paths takes from the query path; every
\* other rewritten candidate was rewritten by apply_home_replacement_to_paths,
\* which rewrites whatever query produced the list.
C3_RewriteByFlagOrApply ==
    \A v \in ListingViews : \A k \in 1..Len(v.paths) :
        /\ Rewritten(v, k) => v.prov[k].by \in {"thread", "apply"}
        /\ v.prov[k].by = "thread" => v.ut
        /\ (v.prov[k].by = "thread" /\ v.kind = "paths") => v.qtilde
        /\ v.prov[k].by = "apply" => v.paths = destination_paths

\* C3 witness: the list holds the result of an absolute-path query, rewritten
\* by apply_home_replacement_to_paths
C3_AbsoluteQueryRewritten ==
    /\ dp_src.tid # 0
    /\ ~dp_src.qtilde
    /\ \E k \in 1..Len(dp_src.prov) :
           dp_src.prov[k].by = "apply" /\ destination_paths[k][1] = "~"

\* C4: a candidate is rewritten only when remote_home is known and is a literal
\* prefix of the candidate (h3 is the value of remote_home the rewrite used).
C4_RewriteOnlyWithKnownPrefix ==
    \A v \in ListingViews : \A k \in 1..Len(v.paths) :
        Rewritten(v, k) =>
            /\ v.prov[k].h3 # NoHome
            /\ StartsWith(v.prov[k].c, v.prov[k].h3)

\* C5: when the cache holds H while a candidate of a home-relative query is
\* processed and the normalized line literally starts with H, the candidate is
\* '~' followed by the line without H, and '/': it starts with '~' and its
\* length is that of the unrewritten candidate minus len(H) plus 1.
C5_RewrittenForm ==
    \A v \in ListingViews : \A k \in 1..Len(v.paths) :
        LET e == v.prov[k]
            H == e.h1
        IN (/\ v.ut
            /\ H # NoHome
            /\ e.h2 = H
            /\ e.h3 \in {H, NoHome}
            /\ Len(e.c) >= Len(H)
            /\ SubSeq(e.c, 1, Len(H)) = H)
           => /\ v.paths[k][1] = "~"
              /\ Len(v.paths[k]) = (Len(e.c) + 1) - Len(H) + 1
              /\ SubSeq(v.paths[k], 2, Len(v.paths[k]))
                     = SubSeq(e.c, Len(H) + 1, Len(e.c)) \o << "/" >>

\* C5 witness: the listing /home/alice/docs/, /home/alice/pics/ of a '~/' query,
\* processed by the thread with H = /home/alice, is the list ~/docs/, ~/pics/
C5_DocsAndPics ==
    /\ destination_paths = << <<"~", "/", "d", "o", "c", "s", "/">>,
                              <<"~", "/", "p", "i", "c", "s", "/">> >>
    /\ dp_src.using_tilde
    /\ \A k \in 1..2 :
           /\ dp_src.prov[k].by = "thread"
           /\ dp_src.prov[k].h1 = RemoteHomeOf("A")
           /\ dp_src.prov[k].h3 = RemoteHomeOf("A")
    /\ dp_src.prov[1].c = RemoteHomeOf("A") \o <<"/", "d", "o", "c", "s">>

\* the string s is made of '/' characters only
OnlySlashes(s) == \A i \in 1..Len(s) : s[i] = "/"

\* a raw line that is not empty after stripping
NonEmptyAfterStripping(l) == ~OnlySlashes(Strip(l))

\* s ends with exactly one '/'
ExactlyOneTrailingSlash(s) ==
    /\ Len(s) >= 2
    /\ s[Len(s)] = "/"
    /\ s[Len(s) - 1] # "/"

\* s is t followed by '/' characters only
SlashesAfter(s, t) ==
    /\ Len(s) >= Len(t)
    /\ SubSeq(s, 1, Len(t)) = t
    /\ \A i \in (Len(t) + 1)..Len(s) : s[i] = "/"

\* C6: of the lines a listing thread has processed, each line that is non-empty
\* after stripping gave one candidate, in order, which ends with exactly one
\* '/' and (unless rewritten) is the stripped line with its trailing '/'
\* characters replaced by one; a line that is empty after stripping gave none;
\* "/tmp/x//" gives "/tmp/x/".
C6_OneTrailingSlash ==
    /\ NormalizeLine(<<"/", "t", "m", "p", "/", "x", "/", "/">>) \o << "/" >>
           = <<"/", "t", "m", "p", "/", "x", "/">>
    /\ \A n \in 1..Len(threads) :
           threads[n].pc \in {"item", "prefix", "slice", "post"} =>
               LET th == threads[n]
                   kept == SelectSeq(SubSeq(th.lines, 1, th.i - 1),
                                     NonEmptyAfterStripping)
               IN /\ Len(th.paths) = Len(kept)
                  /\ \A k \in 1..Len(kept) :
                         /\ ExactlyOneTrailingSlash(th.paths[k])
                         /\ th.prov[k].by = "none" =>
                                SlashesAfter(Strip(kept[k]),
                                             SubSeq(th.paths[k], 1,
                                                    Len(th.paths[k]) - 1))

\* C6 witness: a thread has processed a line with two trailing '/' and a line
\* that is empty after stripping, and holds one candidate
C6_DoubleSlashAndEmptyLine ==
    \E n \in 1..Len(threads) :
        /\ threads[n].pc = "post"
        /\ Len(threads[n].lines) = 2
        /\ threads[n].lines[1] = <<"a", "/", "/">>
        /\ OnlySlashes(Strip(threads[n].lines[2]))
        /\ threads[n].paths = << <<"a", "/">> >>

\* C7: when the remote call of a listing thread timed out, could not connect,
\* exited non-zero or printed nothing, the thread ends with no candidate, with
\* nothing scheduled or written to the candidate list, and no exception leaves
\* its target.
C7_FailureYieldsNothing ==
    [][ \A n \in 1..Len(threads) :
          (/\ threads[n].kind # "home"
           /\ threads[n].pc = "ret"
           /\ threads[n].out \in FailureResults
           /\ threads'[n] # threads[n])
          => /\ threads'[n].pc = "done"
             /\ threads'[n].paths = << >>
             /\ ~threads'[n].escaped
             /\ after_queue' = after_queue
             /\ destination_paths' = destination_paths ]_vars

\* C7 witness: the first listing query failed: its thread has returned, nothing
\* was delivered and the list is still the placeholder
C7_FirstListingFailed ==
    /\ Len(threads) = 2
    /\ threads[2].pc = "done"
    /\ ~threads[2].escaped
    /\ threads[1].pc = "done"
    /\ after_queue = << >>
    /\ max_arrived.tid = 0
    /\ destination_paths = Placeholder

\* C8: once all overlapping listing queries have delivered, the candidate list
\* holds the result of the query that was issued last.
C8_LastIssuedWins ==
    (AllDelivered /\ max_arrived.tid = LastIssued)
        => destination_paths = max_arrived.paths

\* C9: a delivered listing result that is not empty becomes the candidate list,
\* whichever query it belongs to and whatever the list holds.
C9_AppliedInArrivalOrder ==
    [][ (/\ after_queue # << >>
         /\ after_queue' = Tail(after_queue)
         /\ Head(after_queue).fn # "apply_home_replacement_to_paths"
         /\ Head(after_queue).paths # << >>)
        => destination_paths' = Head(after_queue).paths ]_vars

\* C9 witness: everything has been delivered, a query issued later has delivered
\* a result, and the list holds the result of a query of the same endpoint
\* issued before it
C9_EarlierResultRemains ==
    /\ AllDelivered
    /\ dp_src.tid # 0
    /\ dp_src.tid < max_arrived.tid
    /\ destination_paths # max_arrived.paths
    /\ dp_src.host = selected_host
    /\ max_arrived.tid = LastIssued

\* C10: after on_server_selected has run for a new endpoint, the candidate list
\* never holds the result of a query run against a previously selected endpoint.
C10_SupersededNeverApplied ==
    dp_src.tid # 0 => dp_src.host = selected_host

\* C11: in every reachable state in which remote_home is non-empty, its value is
\* the home directory of the currently selected endpoint.
C11_CacheBelongsToSelected ==
    remote_home # NoHome => remote_home = RemoteHomeOf(selected_host)

\* C12: no step of a background thread writes destination_paths or remote_home:
\* a step that advances a thread leaves both unchanged.
C12_NoBackgroundWrite ==
    [][ (\E n \in 1..Len(threads) : threads'[n] # threads[n])
        => /\ remote_home' = remote_home
           /\ destination_paths' = destination_paths ]_vars

\* C13: with selected_host = None a thread target returns at once, running no
\* remote command, and nothing changes the candidate list; with a host selected
\* a listing thread goes on to its remote call against that host, whatever the
\* state of the home resolution.
C13_NoRequestWithoutHost ==
    [][ /\ NoHostSelected(selected_host) => destination_paths' = destination_paths
        /\ \A n \in 1..Len(threads) :
             (threads[n].pc = "start" /\ threads'[n] # threads[n]) =>
                 IF selected_host = None
                 THEN /\ threads'[n].host = None
                      /\ threads'[n].out = NoResult
                      /\ threads'[n].home = NoHome
                      /\ after_queue' = after_queue
                      /\ threads[n].kind # "home" => threads'[n].pc = "done"
                 ELSE /\ threads'[n].host = selected_host
                      /\ threads[n].kind # "home"
                           => threads'[n].pc \in {"tilde", "ret"} ]_vars

\* C13 witness: no host is selected, the three thread targets have returned and
\* on the way nothing was scheduled or written to the list
C13_AllReturnedWithoutHost ==
    /\ selected_host = None
    /\ \A n \in 1..Len(threads) : threads[n].pc = "done"
    /\ destination_paths = << >>
    /\ after_queue = << >>

\* a step of the interactive thread: a handler that starts threads, or the run of
\* a scheduled callback
InteractiveStep ==
    \/ Len(threads') > Len(threads)
    \/ after_queue # << >> /\ after_queue' = Tail(after_queue)
    \/ dest_var' # dest_var
    \/ selected_host' # selected_host

\* C14: a thread is created with no remote command run for it, and a step of the
\* interactive thread leaves every existing thread as it is: a remote result
\* (of `echo $HOME` or of a listing) only appears in a step of its own thread.
C14_RemoteCallsOnlyInThreads ==
    [][ /\ \A n \in (Len(threads) + 1)..Len(threads') :
              /\ threads'[n].pc = "start"
              /\ threads'[n].out = NoResult
              /\ threads'[n].host = None
              /\ threads'[n].home = NoHome
        /\ InteractiveStep =>
              \A n \in 1..Len(threads) : threads'[n] = threads[n]
        /\ \A n \in 1..Len(threads) :
              (threads'[n].out # threads[n].out \/ threads'[n].host # threads[n].host)
                  => /\ ~InteractiveStep
                     /\ destination_paths' = destination_paths
                     /\ combo_values' = combo_values ]_vars

\* C14 witness: a query started by on_dest_typing has its listing back, in its
\* thread, while a home-resolution thread holds the home it fetched
C14_ResultsHeldByThreads ==
    \E n, m \in 1..Len(threads) :
        /\ threads[n].kind = "filter" /\ threads[n].pc = "ret"
        /\ threads[n].out.exc = "none" /\ threads[n].out.rc = 0
        /\ threads[n].out.stdout # << >>
        /\ threads[m].kind = "home" /\ threads[m].pc = "store"
        /\ threads[m].home # NoHome

\* C15: the candidate list a listing result installed in the destination field
\* holds no path string twice.
C15_NoDuplicateCandidates ==
    dp_src.tid # 0 =>
        \A i, j \in 1..Len(destination_paths) :
            i # j => destination_paths[i] # destination_paths[j]

\* the normalized non-empty lines of a listing, in the order of the listing
NormalizedLines(lines) ==
    LET kept == SelectSeq(lines, NonEmptyAfterStripping)
    IN [ k \in 1..Len(kept) |-> NormalizeLine(kept[k]) ]

\* C16: the candidates a listing thread has built are, one for one and in the
\* same order, the normalized non-empty lines of the remote output it has gone
\* through (each with '/' added, or rewritten with '~'); the thread schedules
\* exactly that sequence and the delivery installs it as it is.
C16_ListingOrderKept ==
    /\ [](\A n \in 1..Len(threads) :
            threads[n].pc \in {"item", "prefix", "slice", "post"} =>
                LET th == threads[n]
                    done == NormalizedLines(SubSeq(StdoutLines(th.out.stdout), 1, th.i - 1))
                IN /\ Len(th.paths) = Len(done)
                   /\ \A k \in 1..Len(done) :
                          /\ th.prov[k].c = done[k]
                          /\ th.paths[k] =
                                 IF th.prov[k].by = "thread"
                                 THEN Candidate(HomeRewrite(done[k], th.prov[k].h3))
                                 ELSE Candidate(done[k]))
    /\ [][ /\ Len(after_queue') > Len(after_queue) =>
                \E n \in 1..Len(threads) :
                    /\ threads[n].pc = "post"
                    /\ after_queue'[Len(after_queue')].paths = threads[n].paths
           /\ (/\ after_queue # << >>
               /\ after_queue' = Tail(after_queue)
               /\ Head(after_queue).fn # "apply_home_replacement_to_paths"
               /\ Head(after_queue).paths # << >>)
                => destination_paths' = Head(after_queue).paths ]_vars

\* C16 witness: the list delivered for the output 'a', '/a' holds a/ before /a/,
\* the order of the output and not the sorted order
C16_UnsortedOrderDelivered ==
    /\ dp_src.tid # 0
    /\ destination_paths = << <<"a", "/">>, <<"/", "a", "/">> >>

C18_ApplyIdempotent ==
    /\ [](\A v \in ListingViews :
            LET once == ApplyHomeReplacementToPaths(v.paths, ListingHome)
            IN /\ \A k \in 1..Len(v.paths) :
                      StartsWith(v.paths[k], TILDE) => once[k] = v.paths[k]
               /\ ApplyHomeReplacementToPaths(once, ListingHome) = once)
    /\ [][ (/\ after_queue # << >>
            /\ after_queue' = Tail(after_queue)
            /\ Head(after_queue).fn = "apply_home_replacement_to_paths")
             => /\ destination_paths'
                      = ApplyHomeReplacementToPaths(destination_paths, remote_home)
                /\ \A k \in 1..Len(destination_paths) :
                       StartsWith(destination_paths[k], TILDE)
                           => destination_paths'[k] = destination_paths[k]
                /\ ApplyHomeReplacementToPaths(destination_paths', remote_home)
                       = destination_paths' ]_vars

\* C18 witness: apply_home_replacement_to_paths has run on a delivered list that
\* held a candidate already rewritten by its thread, which it kept, and one it
\* rewrote itself
C18_AppliedToMixedList ==
    \E k, j \in 1..Len(destination_paths) :
        /\ dp_src.tid # 0
        /\ dp_src.prov[k].by = "apply"
        /\ dp_src.prov[j].by = "thread"
        /\ StartsWith(destination_paths[j], TILDE)

\* C19: once the home resolution, the apply it scheduled and every listing
\* delivery have completed, with the home H of the selected endpoint in the cache
\* and the list the result of a home-relative query, no candidate of
\* destination_paths begins with H.
C19_NoHomePrefixWhenSettled ==
    (/\ AllDelivered
     /\ remote_home # NoHome
     /\ remote_home = RemoteHomeOf(selected_host)
     /\ dp_src.host = selected_host
     /\ dp_src.qtilde)
      => \A k \in 1..Len(destination_paths) :
             ~StartsWith(destination_paths[k], remote_home)

\* C20: with an endpoint selected the candidate list and the values of the
\* combobox are never empty, so the reload branch of on_dest_focus is never
\* taken; and a listing thread that returns right after subprocess.run (failure,
\* timeout, nothing printed) leaves the list as it is and schedules nothing.
C20_ListNeverEmptied ==
    /\ [](~NoHostSelected(selected_host) =>
              /\ destination_paths # << >>
              /\ combo_values # << >>)
    /\ [][ \A n \in 1..Len(threads) :
              (threads[n].pc = "ret" /\ threads'[n].pc = "done")
                  => /\ destination_paths' = destination_paths
                     /\ dest_var' = dest_var
                     /\ after_queue' = after_queue ]_vars

\* C20 witness: every query of the session has failed, nothing is pending, and
\* the field still holds the typed text and the list the placeholder
C20_AllFailedListKept ==
    /\ AllDelivered
    /\ Len(threads) >= 3
    /\ remote_home = NoHome
    /\ dest_var = <<"~", "/", "d">>
    /\ destination_paths = Placeholder
    /\ dp_src.kind = "load"

\* C21: the using_tilde flag with which the result of a typed query is processed
\* is that of the text the query was started from: for every candidate list of
\* a fetch_and_filter_paths thread, scheduled or delivered, the flag equals
\* "the query text starts with '~/'".
C21_FlagIsSnapshotOfQuery ==
    /\ \A n \in 1..Len(threads) :
           (threads[n].kind = "filter"
              /\ threads[n].pc \in {"ret", "item", "prefix", "slice", "post"})
             => threads[n].using_tilde = StartsWith(threads[n].qtext, TILDE_SLASH)
    /\ \A v \in ListingViews : v.kind = "filter" => v.ut = v.qtilde

\* C22: a candidate is rewritten only when its line is H or begins with H
\* followed by '/', so every rewritten candidate begins with '~/'.
C22_RewriteAtComponentBoundary ==
    \A v \in ListingViews : \A k \in 1..Len(v.paths) :
        v.prov[k].by \in {"thread", "apply"} =>
            /\ v.prov[k].c = v.prov[k].h3
                 \/ StartsWith(v.prov[k].c, v.prov[k].h3 \o << "/" >>)
            /\ StartsWith(v.paths[k], TILDE_SLASH)

\* scp was executed and exited with status 0
ScpSucceeded == scp_out.ran /\ scp_out.exc = "none" /\ scp_out.rc = 0

\* C23: no exception leaves copy_files_to_server; when it has returned, its
\* value is (True, message) exactly when scp was executed and exited with 0 and
\* (False, text) otherwise; after the sshpass error scp was not run; and the
\* mkdir step, failed or not, is followed by the scp attempt.
C23_CopyReturnsOutcome ==
    /\ [](/\ ~raised
          /\ (main_pc = "done" /\ config # NoDict) =>
                 /\ ret # NoDict
                 /\ ret[1] \in {"True", "False"}
                 /\ ret[1] = "True" <=> ScpSucceeded
                 /\ ret = Failure("sshpass") => scp_out = ScpNotRun
          /\ main_pc # "done" => ret = NoDict)
    /\ [][main_pc = "mkdir" => main_pc' \in {"mkdir", "scp"}]_vars

\* C23 witness: with a password and no identity file, the mkdir step failed with
\* a warning and the scp that followed succeeded
C23_CopiedAfterMkdirWarning ==
    /\ main_pc = "done"
    /\ config # NoDict
    /\ NeedsSshpass(config[1])
    /\ warned
    /\ ret = << "True", "Files copied successfully!" >>

\* the delays 1, 2, 4, ... before attempts 2, 3, ...
RECURSIVE Backoff(_)
Backoff(n) == IF n = 0 THEN << >> ELSE Append(Backoff(n - 1), 2 ^ (n - 1))

\* C24: get_metadata_from_musicbrainz makes at most 5 lookups; every lookup
\* but the last failed with a connection error and was followed by a sleep of
\* 1, 2, 4, 8 seconds in turn; it returns the metadata when the last lookup
\* succeeded and None when it failed, which after a connection error happens
\* only at the 5th lookup.
C24_BoundedBackoff ==
    /\ Len(lookups) <= 5
    /\ \A i \in 1..(Len(lookups) - 1) : lookups[i] = "connection"
    /\ pc = "musicbrainz" =>
           /\ \A i \in 1..Len(lookups) : lookups[i] = "connection"
           /\ Len(lookups) < 5
           /\ sleeps = Backoff(Len(lookups))
           /\ mb_return = "None"
    /\ (pc \in {"dialog", "done"} /\ lookups # << >>) =>
           LET last == lookups[Len(lookups)] IN
           /\ sleeps = Backoff(Len(lookups) - 1)
           /\ mb_return = IF last = "ok" THEN "found" ELSE "None"
           /\ last = "connection" => Len(lookups) = 5
    /\ lookups = << >> => sleeps = << >> /\ mb_return = "None"

\* C24 witness: four connection errors, each followed by its sleep, and a fifth
\* lookup that failed the same way: None is returned after sleeps of 1, 2, 4, 8
C24_FiveConnectionFailures ==
    /\ pc = "dialog"
    /\ lookups = << "connection", "connection", "connection", "connection",
                    "connection" >>
    /\ sleeps = << 1, 2, 4, 8 >>
    /\ mb_return = "None"

\* C25: the name the file is moved to does not exist in the import directory
\* when shutil.move is called: it is the file's own name when that is free, else
\* base_k.ext for the smallest k >= 1 that is free; and the search loop has tried
\* at most one name per existing entry.
C25_MoveToFreeName ==
    /\ [](/\ pc = "move" =>
                /\ destination \notin existing
                /\ destination = Destination(existing)
                /\ destination # 0 =>
                       \A k \in 0..(destination - 1) : k \in existing
          /\ pc = "while" =>
                /\ counter <= Cardinality(existing) + 1
                /\ destination \in {0, counter - 1}
                /\ \A k \in 0..(counter - 2) : k \in existing)
    /\ [][moved' /\ ~moved => destination \notin existing]_vars

\* C25 witness: the file's name and base_1 were taken and the file has been
\* moved to base_2
C25_MovedToSecondSuffix ==
    /\ pc = "done"
    /\ moved
    /\ destination = 2
    /\ {0, 1, 2} \subseteq existing

=============================================================================
